---- MODULE Spec2Model ----
(***************************************************************************)
(* Dining philosophers in node.js (philosophers.js): forks acquired with   *)
(* binary exponential backoff, the philosophers' strategies and the event  *)
(* log.  node runs one task at a time: the code between two awaits is one  *)
(* indivisible step, and every await is a suspension point after which any *)
(* other task may run.  Elapsed time (the field t of a log entry and the   *)
(* length of a delay) decides nothing in the code and is not modelled: a   *)
(* delay ends at an arbitrary later step.                                  *)
(***************************************************************************)
EXTENDS Integers, Sequences, FiniteSets, TLC

\* ---- bounds of the model ------------------------------------------------
MaxSize == 4
MaxWaits == 11
MaxCalls == 3
MaxLen == 4
LiveMeals == 1

\* ---- program constants --------------------------------------------------
maxWait == 1000
N == 5
NULL == -1
NoError == ""

Min(a, b) == IF a < b THEN a ELSE b

RECURSIVE Pow2(_)
Pow2(e) == IF e = 0 THEN 1 ELSE 2 * Pow2(e - 1)

EventKinds == {"TRY", "ACQUIRE", "EAT_START", "EAT_END", "RELEASE", "TIMEOUT"}

VARIABLES
    n,                \* ring size: forks.length
    forks,            \* the array of Fork objects
    philosophers,     \* the array of Philosopher objects
    eventLog,         \* the process-wide log
    currentAlgorithm, \* tag set by startRun
    currentRunId,     \* tag set by startRun
    observed,         \* the <<actor, event kind>> pairs whose entries this run keeps
    conductor,        \* the Conductor object of an admission-gated run
    capacity,         \* the capacity the Conductor was constructed with
    strategy,         \* the entry point the driver started on every actor
    count,            \* the meal count passed to the entry point
    pc,               \* where each task is suspended
    i,                \* the loop variable of each task's strategy loop
    frame,            \* the locals of each task's pending Fork.acquire call
    thrown,           \* the error that ended each task, or NoError
    calls,            \* number of calls the unit-test harness has made
    lastCall,         \* the harness's last call and its outcome
    analysis,         \* the locals of an analyzeLog call: its loop index and results
    driver            \* the locals of the experiment driver's main

vars == <<n, forks, philosophers, eventLog, currentAlgorithm, currentRunId,
          observed, conductor, capacity, strategy, count, pc, i, frame, thrown,
          calls, lastCall, analysis, driver>>

Ids == 0 .. (n - 1)

\* ---- construction -------------------------------------------------------
Fork(id) == [id |-> id, state |-> 0, holder |-> NULL]

\* The right index without the wrap-around.
PhilosopherNoWrap(id, len) == [id |-> id, f1 |-> id % len, f2 |-> id + 1]

Philosopher(id, len) == [id |-> id, f1 |-> id % len, f2 |-> (id + 1) % len]

\* The constructor keeping one seat more than it was given.
ConductorOneMore(maxSeats) == [seats |-> maxSeats + 1, waiting |-> <<>>]

Conductor(maxSeats) == [seats |-> maxSeats, waiting |-> <<>>]

\* The locals of a Fork.acquire call (or of the dual acquire) across its awaits:
\* k counts the waits of the call and stops counting at MaxWaits.
NoFrame == [requesterId |-> NULL, fork |-> NULL, forks |-> <<>>, waitTime |-> 0,
            k |-> 0, ret |-> ""]

NoCall == [op |-> "", requesterId |-> NULL, fork |-> NULL, forks |-> <<>>,
           error |-> ""]

\* No analyzeLog call and no driver in the process.
NoAnalysis == [i |-> 0]

NoDriver == [selectedAlgorithms |-> <<>>, results |-> <<>>]

\* ---- the event log ------------------------------------------------------
\* A heap H is the shared mutable state one step works on: [forks, eventLog,
\* conductor, woken, thrown].  The program never reads its log, so a run of
\* the model may keep the projection of the log onto the pairs in observed;
\* with every pair observed it is the program's log.
\* push replaced by unshift: the entry goes to the front of the log.
logAtFront(H, philId, event, fks) ==
    IF <<philId, event>> \in observed
    THEN [H EXCEPT !.eventLog = <<[runId |-> currentRunId,
                                   algorithm |-> currentAlgorithm,
                                   phil |-> philId,
                                   event |-> event,
                                   forks |-> fks]>> \o @]
    ELSE H

log(H, philId, event, fks) ==
    IF <<philId, event>> \in observed
    THEN [H EXCEPT !.eventLog = Append(@, [runId |-> currentRunId,
                                            algorithm |-> currentAlgorithm,
                                            phil |-> philId,
                                            event |-> event,
                                            forks |-> fks])]
    ELSE H

\* ---- Fork ---------------------------------------------------------------
ToText(v) == IF v = NULL THEN "null" ELSE ToString(v)

ErrorText(requesterId, holder) ==
    "Philosopher " \o ToText(requesterId)
        \o " cannot release fork held by " \o ToText(holder)

\* take without 'this.state = 1'.
takeNoState(H, f, requesterId, fks) ==
    log([H EXCEPT !.forks[f].holder = requesterId], requesterId, "ACQUIRE", fks)

\* The body of 'if (this.state === 0)' without 'this.holder = requesterId'.
takeNoHolder(H, f, requesterId, fks) ==
    log([H EXCEPT !.forks[f].state = 1], requesterId, "ACQUIRE", fks)

\* The body of 'if (this.state === 0)' in Fork.acquire.
take(H, f, requesterId, fks) ==
    log([H EXCEPT !.forks[f].state = 1, !.forks[f].holder = requesterId],
        requesterId, "ACQUIRE", fks)

\* The check of Fork.acquire left out.
isFreeUnchecked(H, f) == H.forks[f].state \in {0, 1}

\* The check 'this.state === 0' of Fork.acquire.
isFree(H, f) == H.forks[f].state = 0

\* Fork.acquire logging TRY only when it has to wait.
acquireTryLate(H, f, requesterId, fks, ret) ==
    IF isFree(H, f)
    THEN [H |-> take(H, f, requesterId, fks), pc |-> ret, frame |-> NoFrame]
    ELSE [H |-> log(H, requesterId, "TRY", fks), pc |-> "delay",
          frame |-> [requesterId |-> requesterId, fork |-> f, forks |-> fks,
                     waitTime |-> 1, k |-> 1, ret |-> ret]]

\* Fork.acquire from its call to its first return or await: the result is
\* the heap and the caller's frame; pc "delay" is the await of delay(waitTime),
\* any other pc is the continuation ret of the caller's await.
acquire(H, f, requesterId, fks, ret) ==
    LET H1 == log(H, requesterId, "TRY", fks)
    IN  IF isFree(H1, f)
        THEN [H |-> take(H1, f, requesterId, fks), pc |-> ret, frame |-> NoFrame]
        ELSE [H |-> H1, pc |-> "delay",
              frame |-> [requesterId |-> requesterId, fork |-> f, forks |-> fks,
                         waitTime |-> 1, k |-> 1, ret |-> ret]]

\* Math.max in place of Math.min.
nextWaitMax(waitTime) == IF waitTime * 2 > maxWait THEN waitTime * 2 ELSE maxWait

\* 'waitTime = Math.min(waitTime * 2, maxWait)'
nextWait(waitTime) == Min(waitTime * 2, maxWait)

\* The recheck comparing the holder with the requester, not the state with 0.
retrySteal(H, fr) ==
    IF H.forks[fr.fork].holder # fr.requesterId
    THEN [H |-> take(H, fr.fork, fr.requesterId, fr.forks), pc |-> fr.ret,
          frame |-> NoFrame]
    ELSE [H |-> H, pc |-> "delay",
          frame |-> [fr EXCEPT !.waitTime = nextWait(fr.waitTime),
                               !.k = Min(fr.k + 1, MaxWaits)]]

\* Fork.acquire resumed after delay(waitTime).
retry(H, fr) ==
    IF isFree(H, fr.fork)
    THEN [H |-> take(H, fr.fork, fr.requesterId, fr.forks), pc |-> fr.ret,
          frame |-> NoFrame]
    ELSE [H |-> H, pc |-> "delay",
          frame |-> [fr EXCEPT !.waitTime = nextWait(fr.waitTime),
                               !.k = Min(fr.k + 1, MaxWaits)]]

\* release without 'this.holder = null'.
releaseKeepHolder(H, f, requesterId, fks) ==
    IF H.forks[f].holder # requesterId
    THEN [H EXCEPT !.thrown = ErrorText(requesterId, H.forks[f].holder)]
    ELSE log([H EXCEPT !.forks[f].state = 0], requesterId, "RELEASE", fks)

\* release without 'this.state = 0'.
releaseKeepState(H, f, requesterId, fks) ==
    IF H.forks[f].holder # requesterId
    THEN [H EXCEPT !.thrown = ErrorText(requesterId, H.forks[f].holder)]
    ELSE log([H EXCEPT !.forks[f].holder = NULL], requesterId, "RELEASE", fks)

\* release that accepts any requester on a fork without holder.
releaseUnlessHeld(H, f, requesterId, fks) ==
    IF H.forks[f].holder # NULL /\ H.forks[f].holder # requesterId
    THEN [H EXCEPT !.thrown = ErrorText(requesterId, H.forks[f].holder)]
    ELSE log([H EXCEPT !.forks[f].state = 0, !.forks[f].holder = NULL],
             requesterId, "RELEASE", fks)

\* release that logs before it checks the owner.
releaseLogFirst(H, f, requesterId, fks) ==
    LET H1 == log(H, requesterId, "RELEASE", fks)
    IN  IF H1.forks[f].holder # requesterId
        THEN [H1 EXCEPT !.thrown = ErrorText(requesterId, H1.forks[f].holder)]
        ELSE [H1 EXCEPT !.forks[f].state = 0, !.forks[f].holder = NULL]

\* Fork.release: a throw leaves the error in the heap.
release(H, f, requesterId, fks) ==
    IF H.forks[f].holder # requesterId
    THEN [H EXCEPT !.thrown = ErrorText(requesterId, H.forks[f].holder)]
    ELSE log([H EXCEPT !.forks[f].state = 0, !.forks[f].holder = NULL],
             requesterId, "RELEASE", fks)

\* ---- Philosopher --------------------------------------------------------
Heap == [forks |-> forks, eventLog |-> eventLog, conductor |-> conductor,
         woken |-> {}, thrown |-> NoError]

philLog(H, p, event) ==
    log(H, philosophers[p].id, event, <<philosophers[p].f1, philosophers[p].f2>>)

\* Commit the result R = [H, pc, frame, i] of task p's step.
Commit(p, R) ==
    /\ pc[p] \notin {"done", "failed"}
    /\ forks' = R.H.forks
    /\ eventLog' = R.H.eventLog
    /\ thrown' = IF R.H.thrown = NoError THEN thrown
                 ELSE [thrown EXCEPT ![p] = R.H.thrown]
    /\ conductor' = R.H.conductor
    /\ pc' = [q \in Ids |-> IF q = p THEN R.pc
                             ELSE IF q \in R.H.woken THEN "seated" ELSE pc[q]]
    /\ frame' = [frame EXCEPT ![p] = R.frame]
    /\ i' = [i EXCEPT ![p] = R.i]
    /\ UNCHANGED <<analysis, driver,
                   n, philosophers, currentAlgorithm, currentRunId, observed,
                   capacity, strategy, count, calls, lastCall>>

With(A, it) == [H |-> A.H, pc |-> A.pc, frame |-> A.frame, i |-> it]

\* The loop condition i <= count.
naiveHeadOneMore(H, p, it) ==
    LET ph == philosophers[p]
    IN  IF it <= count
        THEN With(acquire(H, ph.f1, ph.id, <<ph.f1, ph.f2>>, "second"), it)
        ELSE [H |-> H, pc |-> "done", frame |-> NoFrame, i |-> it]

\* startNaive: the head of the for loop with loop variable it.
naiveHead(H, p, it) ==
    LET ph == philosophers[p]
    IN  IF it < count
        THEN With(acquire(H, ph.f1, ph.id, <<ph.f1, ph.f2>>, "second"), it)
        ELSE [H |-> H, pc |-> "done", frame |-> NoFrame, i |-> it]

\* startNaive after the first acquire: the call of the second one.
naiveSecond(H, p, it) ==
    LET ph == philosophers[p]
    IN  With(acquire(H, ph.f2, ph.id, <<ph.f1, ph.f2>>, "eat"), it)

\* The first log call of the eating part with the event of the second.
eatStartLogsEnd(H, p, it) ==
    [H |-> philLog(H, p, "EAT_END"), pc |-> "eating", frame |-> NoFrame, i |-> it]

\* startNaive from EAT_START to the await of delay(1).
eatStart(H, p, it) ==
    [H |-> philLog(H, p, "EAT_START"), pc |-> "eating", frame |-> NoFrame, i |-> it]

\* The releases moved before the log of EAT_END.
eatEndReleaseFirst(H, p, fa, fb) ==
    LET ph == philosophers[p]
        H1 == release(H, fa, ph.id, <<ph.f1, ph.f2>>)
        H2 == IF H1.thrown # NoError THEN H1
              ELSE release(H1, fb, ph.id, <<ph.f1, ph.f2>>)
    IN  IF H2.thrown # NoError THEN H2 ELSE philLog(H2, p, "EAT_END")

\* The second release left out.
eatEndOneRelease(H, p, fa, fb) ==
    LET ph == philosophers[p]
    IN  release(philLog(H, p, "EAT_END"), fa, ph.id, <<ph.f1, ph.f2>>)

\* EAT_END and the two releases; a throw ends the task.
eatEnd(H, p, fa, fb) ==
    LET ph == philosophers[p]
        H1 == philLog(H, p, "EAT_END")
        H2 == release(H1, fa, ph.id, <<ph.f1, ph.f2>>)
    IN  IF H2.thrown # NoError THEN H2
        ELSE release(H2, fb, ph.id, <<ph.f1, ph.f2>>)

naiveEatEnd(H, p, it) ==
    LET ph == philosophers[p]
        H1 == eatEnd(H, p, ph.f1, ph.f2)
    IN  IF H1.thrown # NoError
        THEN [H |-> H1, pc |-> "failed", frame |-> NoFrame, i |-> it]
        ELSE naiveHead(H1, p, it + 1)

NaiveStart(p) ==
    /\ strategy = "naive" /\ pc[p] = "start"
    /\ Commit(p, naiveHead(Heap, p, 0))

NaiveSecond(p) ==
    /\ strategy = "naive" /\ pc[p] = "second"
    /\ Commit(p, naiveSecond(Heap, p, i[p]))

NaiveEatStart(p) ==
    /\ strategy = "naive" /\ pc[p] = "eat"
    /\ Commit(p, eatStart(Heap, p, i[p]))

NaiveEatEnd(p) ==
    /\ strategy = "naive" /\ pc[p] = "eating"
    /\ Commit(p, naiveEatEnd(Heap, p, i[p]))

\* The end of a delay inside Fork.acquire, in any strategy.
AcquireRetry(p) ==
    /\ pc[p] = "delay"
    /\ Commit(p, With(retry(Heap, frame[p]), i[p]))

\* ---- startAsym (body not in philosophers.js: from the design document) ---
\* The parities exchanged: odd identities take the left fork first.
asymFirstOdd(ph) == IF ph.id % 2 = 1 THEN ph.f1 ELSE ph.f2

\* Even identities take the left fork first, odd ones the right fork first.
asymFirst(ph) == IF ph.id % 2 = 0 THEN ph.f1 ELSE ph.f2

asymSecond(ph) == IF ph.id % 2 = 0 THEN ph.f2 ELSE ph.f1

asymHead(H, p, it) ==
    LET ph == philosophers[p]
    IN  IF it < count
        THEN With(acquire(H, asymFirst(ph), ph.id, <<ph.f1, ph.f2>>, "second"), it)
        ELSE [H |-> H, pc |-> "done", frame |-> NoFrame, i |-> it]

asymNext(H, p, it) ==
    LET ph == philosophers[p]
    IN  With(acquire(H, asymSecond(ph), ph.id, <<ph.f1, ph.f2>>, "eat"), it)

asymEatEnd(H, p, it) ==
    LET ph == philosophers[p]
        H1 == eatEnd(H, p, ph.f1, ph.f2)
    IN  IF H1.thrown # NoError
        THEN [H |-> H1, pc |-> "failed", frame |-> NoFrame, i |-> it]
        ELSE asymHead(H1, p, it + 1)

AsymStart(p) ==
    /\ strategy = "asymmetric" /\ pc[p] = "start"
    /\ Commit(p, asymHead(Heap, p, 0))

AsymSecond(p) ==
    /\ strategy = "asymmetric" /\ pc[p] = "second"
    /\ Commit(p, asymNext(Heap, p, i[p]))

AsymEatStart(p) ==
    /\ strategy = "asymmetric" /\ pc[p] = "eat"
    /\ Commit(p, eatStart(Heap, p, i[p]))

AsymEatEnd(p) ==
    /\ strategy = "asymmetric" /\ pc[p] = "eating"
    /\ Commit(p, asymEatEnd(Heap, p, i[p]))

\* ---- Conductor (methods not in philosophers.js: from the design document)
\* seats counts the free seats.  requestSeat takes a free seat and returns, or
\* queues the caller; pc "seated" is the continuation of the caller's await.
requestSeat(H, p) ==
    IF H.conductor.seats > 0
    THEN [H |-> [H EXCEPT !.conductor.seats = @ - 1], pc |-> "seated"]
    ELSE [H |-> [H EXCEPT !.conductor.waiting = Append(@, p)], pc |-> "seatwait"]

\* leaveSeat taking the waiter from the wrong end of the queue (pop for shift).
leaveSeatPop(H) ==
    IF Len(H.conductor.waiting) > 0
    THEN [H EXCEPT !.conductor.waiting = SubSeq(@, 1, Len(@) - 1),
                   !.woken = @ \cup {H.conductor.waiting[Len(H.conductor.waiting)]}]
    ELSE [H EXCEPT !.conductor.seats = @ + 1]

\* leaveSeat hands the freed seat to the oldest waiter, or frees it.
leaveSeat(H) ==
    IF Len(H.conductor.waiting) > 0
    THEN [H EXCEPT !.conductor.waiting = Tail(@),
                   !.woken = @ \cup {Head(H.conductor.waiting)}]
    ELSE [H EXCEPT !.conductor.seats = @ + 1]

\* ---- startConductor (body not in philosophers.js) -----------------------
\* The loop going to the first acquire without a requestSeat.
condHeadNoSeat(H, p, it) ==
    LET ph == philosophers[p]
    IN  IF it < count
        THEN With(acquire(H, ph.f1, ph.id, <<ph.f1, ph.f2>>, "second"), it)
        ELSE [H |-> H, pc |-> "done", frame |-> NoFrame, i |-> it]

condHead(H, p, it) ==
    IF it < count
    THEN LET R == requestSeat(H, p)
         IN  [H |-> R.H, pc |-> R.pc, frame |-> NoFrame, i |-> it]
    ELSE [H |-> H, pc |-> "done", frame |-> NoFrame, i |-> it]

condFirst(H, p, it) ==
    LET ph == philosophers[p]
    IN  With(acquire(H, ph.f1, ph.id, <<ph.f1, ph.f2>>, "second"), it)

condSecond(H, p, it) ==
    LET ph == philosophers[p]
    IN  With(acquire(H, ph.f2, ph.id, <<ph.f1, ph.f2>>, "eat"), it)

condEatEnd(H, p, it) ==
    LET ph == philosophers[p]
        H1 == eatEnd(H, p, ph.f1, ph.f2)
    IN  IF H1.thrown # NoError
        THEN [H |-> H1, pc |-> "failed", frame |-> NoFrame, i |-> it]
        ELSE condHead(leaveSeat(H1), p, it + 1)

CondStart(p) ==
    /\ strategy = "conductor" /\ pc[p] = "start"
    /\ Commit(p, condHead(Heap, p, 0))

CondSeated(p) ==
    /\ strategy = "conductor" /\ pc[p] = "seated"
    /\ Commit(p, condFirst(Heap, p, i[p]))

CondSecond(p) ==
    /\ strategy = "conductor" /\ pc[p] = "second"
    /\ Commit(p, condSecond(Heap, p, i[p]))

CondEatStart(p) ==
    /\ strategy = "conductor" /\ pc[p] = "eat"
    /\ Commit(p, eatStart(Heap, p, i[p]))

CondEatEnd(p) ==
    /\ strategy = "conductor" /\ pc[p] = "eating"
    /\ Commit(p, condEatEnd(Heap, p, i[p]))

\* ---- startSimultaneous (body not in philosophers.js) --------------------
\* The check-and-set of both forks, with the loop of Fork.acquire around it.
\* The check with || in place of &&.
bothFreeEither(H, ph) == H.forks[ph.f1].state = 0 \/ H.forks[ph.f2].state = 0

bothFree(H, ph) == H.forks[ph.f1].state = 0 /\ H.forks[ph.f2].state = 0

\* The two forks set as Fork.acquire sets one: an ACQUIRE entry for each.
takeBothTwoEvents(H, ph) ==
    log(log([H EXCEPT !.forks[ph.f1].state = 1, !.forks[ph.f1].holder = ph.id,
                      !.forks[ph.f2].state = 1, !.forks[ph.f2].holder = ph.id],
            ph.id, "ACQUIRE", <<ph.f1>>),
        ph.id, "ACQUIRE", <<ph.f2>>)

takeBoth(H, ph) ==
    log([H EXCEPT !.forks[ph.f1].state = 1, !.forks[ph.f1].holder = ph.id,
                  !.forks[ph.f2].state = 1, !.forks[ph.f2].holder = ph.id],
        ph.id, "ACQUIRE", <<ph.f1, ph.f2>>)

simHead(H, p, it) ==
    LET ph == philosophers[p]
        H1 == log(H, ph.id, "TRY", <<ph.f1, ph.f2>>)
    IN  IF it >= count
        THEN [H |-> H, pc |-> "done", frame |-> NoFrame, i |-> it]
        ELSE IF bothFree(H1, ph)
        THEN [H |-> takeBoth(H1, ph), pc |-> "eat", frame |-> NoFrame, i |-> it]
        ELSE [H |-> H1, pc |-> "delayBoth",
              frame |-> [requesterId |-> ph.id, fork |-> NULL,
                         forks |-> <<ph.f1, ph.f2>>, waitTime |-> 1, k |-> 1,
                         ret |-> "eat"],
              i |-> it]

simRetry(H, p, it) ==
    LET ph == philosophers[p]
    IN  IF bothFree(H, ph)
        THEN [H |-> takeBoth(H, ph), pc |-> "eat", frame |-> NoFrame, i |-> it]
        ELSE [H |-> H, pc |-> "delayBoth",
              frame |-> [frame[p] EXCEPT !.waitTime = nextWait(@),
                                         !.k = Min(@ + 1, MaxWaits)],
              i |-> it]

simEatEnd(H, p, it) ==
    LET ph == philosophers[p]
        H1 == eatEnd(H, p, ph.f1, ph.f2)
    IN  IF H1.thrown # NoError
        THEN [H |-> H1, pc |-> "failed", frame |-> NoFrame, i |-> it]
        ELSE simHead(H1, p, it + 1)

SimStart(p) ==
    /\ strategy = "simultaneous" /\ pc[p] = "start"
    /\ Commit(p, simHead(Heap, p, 0))

SimRetry(p) ==
    /\ strategy = "simultaneous" /\ pc[p] = "delayBoth"
    /\ Commit(p, simRetry(Heap, p, i[p]))

SimEatStart(p) ==
    /\ strategy = "simultaneous" /\ pc[p] = "eat"
    /\ Commit(p, eatStart(Heap, p, i[p]))

SimEatEnd(p) ==
    /\ strategy = "simultaneous" /\ pc[p] = "eating"
    /\ Commit(p, simEatEnd(Heap, p, i[p]))

\* ---- the unit tests' use of a Fork --------------------------------------
\* Any requester calls acquire or release on any fork with any fork list, as
\* the tests of Fork do; a requester has one acquire pending at a time.
ForkLists(p, f) == {<<f>>, <<philosophers[p].f1, philosophers[p].f2>>}

CallAcquire(p, f, fks) ==
    /\ pc[p] = "idle" /\ calls < MaxCalls
    /\ LET R == acquire(Heap, f, p, fks, "idle")
       IN  /\ forks' = R.H.forks
           /\ eventLog' = R.H.eventLog
           /\ pc' = [pc EXCEPT ![p] = R.pc]
           /\ frame' = [frame EXCEPT ![p] = R.frame]
    /\ calls' = calls + 1
    /\ lastCall' = [op |-> "acquire", requesterId |-> p, fork |-> f,
                    forks |-> fks, error |-> NoError]
    /\ UNCHANGED <<analysis, driver,
                   n, philosophers, currentAlgorithm, currentRunId, observed,
                   conductor, capacity, strategy, count, i, thrown>>

CallRelease(p, f, fks) ==
    /\ calls < MaxCalls
    /\ LET H == release(Heap, f, p, fks)
       IN  /\ forks' = H.forks
           /\ eventLog' = H.eventLog
           /\ thrown' = IF H.thrown = NoError THEN thrown
                        ELSE [thrown EXCEPT ![p] = H.thrown]
           /\ lastCall' = [op |-> "release", requesterId |-> p, fork |-> f,
                           forks |-> fks, error |-> H.thrown]
    /\ calls' = calls + 1
    /\ UNCHANGED <<analysis, driver,
                   n, philosophers, currentAlgorithm, currentRunId, observed,
                   conductor, capacity, strategy, count, pc, i, frame>>

\* ---- calls of a Conductor ------------------------------------------------
\* Any actor without a seat calls requestSeat, any actor with a seat calls
\* leaveSeat; pc "idle" is an actor outside both calls.
CallRequestSeat(p) ==
    /\ strategy = "none" /\ pc[p] = "idle"
    /\ LET R == requestSeat(Heap, p)
       IN  /\ conductor' = R.H.conductor
           /\ pc' = [pc EXCEPT ![p] = R.pc]
    /\ lastCall' = [NoCall EXCEPT !.op = "requestSeat", !.requesterId = p]
    /\ UNCHANGED <<analysis, driver,
                   n, forks, philosophers, eventLog, currentAlgorithm,
                   currentRunId, observed, capacity, strategy, count, i, frame,
                   thrown, calls>>

CallLeaveSeat(p) ==
    /\ strategy = "none" /\ pc[p] = "seated"
    /\ LET H == leaveSeat(Heap)
       IN  /\ conductor' = H.conductor
           /\ pc' = [q \in Ids |-> IF q = p THEN "idle"
                                   ELSE IF q \in H.woken THEN "seated" ELSE pc[q]]
    /\ lastCall' = [NoCall EXCEPT !.op = "leaveSeat", !.requesterId = p]
    /\ UNCHANGED <<analysis, driver,
                   n, forks, philosophers, eventLog, currentAlgorithm,
                   currentRunId, observed, capacity, strategy, count, i, frame,
                   thrown, calls>>

\* ---- calls of the log's functions ----------------------------------------
\* generateShortId: six random characters; any identifier may come out.
RunIds == {"k3x9ab", "p07qzt"}

\* The argument of startRun; "" stands for a call without a name.
AlgorithmNames == {"", "asymmetric", "conductor"}

\* 'currentAlgorithm = algorithm || currentAlgorithm' and the new run id.
startRun(algorithm, id) ==
    /\ currentAlgorithm' = (IF algorithm # "" THEN algorithm ELSE currentAlgorithm)
    /\ currentRunId' = id

clearEventLog == eventLog' = <<>>

CallStartRun(algorithm, id) ==
    /\ strategy = "log" /\ calls < MaxCalls
    /\ startRun(algorithm, id)
    /\ calls' = calls + 1
    /\ lastCall' = [op |-> "startRun", algorithm |-> algorithm, runId |-> id]
    /\ UNCHANGED <<analysis, driver,
                   n, forks, philosophers, eventLog, observed, conductor,
                   capacity, strategy, count, pc, i, frame, thrown>>

\* Philosopher.log called on actor p, as the tests of the log call it.
CallLog(p, event) ==
    /\ strategy = "log" /\ calls < MaxCalls
    /\ eventLog' = philLog(Heap, p, event).eventLog
    /\ calls' = calls + 1
    /\ lastCall' = [op |-> "log", phil |-> philosophers[p].id, event |-> event,
                    forks |-> <<philosophers[p].f1, philosophers[p].f2>>]
    /\ UNCHANGED <<analysis, driver,
                   n, forks, philosophers, currentAlgorithm, currentRunId,
                   observed, conductor, capacity, strategy, count, pc, i, frame,
                   thrown>>

CallClearEventLog ==
    /\ strategy = "log" /\ calls < MaxCalls
    /\ clearEventLog
    /\ calls' = calls + 1
    /\ lastCall' = [op |-> "clearEventLog"]
    /\ UNCHANGED <<analysis, driver,
                   n, forks, philosophers, currentAlgorithm, currentRunId,
                   observed, conductor, capacity, strategy, count, pc, i, frame,
                   thrown>>

\* ---- analyzeLog (philosophers.test.js) -----------------------------------
\* 'const results = {...}' and the loop variable i, which indexes from 0.
NewAnalysis(len) ==
    [i |-> 0,
     mealsPerPhilosopher |-> [a \in 0 .. (len - 1) |-> 0],
     sequenceErrors |-> <<>>,
     mutualExclusionViolations |-> <<>>,
     currentlyEating |-> {}]

StartedWhile(phil, neighbor) ==
    "Philosopher " \o ToString(phil) \o " started eating while neighbor "
        \o ToString(neighbor) \o " is eating"

EndedNotEating(phil) ==
    "Philosopher " \o ToString(phil) \o " ended eating but was not eating"

\* case 'EAT_START' checking the left neighbour only.
caseEatStartLeftOnly(R, phil, len) ==
    LET leftNeighbor == (phil - 1 + len) % len
        V1 == IF leftNeighbor \in R.currentlyEating
              THEN Append(R.mutualExclusionViolations,
                          [index |-> R.i, error |-> StartedWhile(phil, leftNeighbor)])
              ELSE R.mutualExclusionViolations
    IN  [R EXCEPT !.mutualExclusionViolations = V1,
                  !.currentlyEating = @ \cup {phil}]

\* case 'EAT_START'
caseEatStart(R, phil, len) ==
    LET leftNeighbor == (phil - 1 + len) % len
        rightNeighbor == (phil + 1) % len
        V1 == IF leftNeighbor \in R.currentlyEating
              THEN Append(R.mutualExclusionViolations,
                          [index |-> R.i, error |-> StartedWhile(phil, leftNeighbor)])
              ELSE R.mutualExclusionViolations
        V2 == IF rightNeighbor \in R.currentlyEating
              THEN Append(V1, [index |-> R.i,
                               error |-> StartedWhile(phil, rightNeighbor)])
              ELSE V1
    IN  [R EXCEPT !.mutualExclusionViolations = V2,
                  !.currentlyEating = @ \cup {phil}]

\* case 'EAT_END' without 'currentlyEating.delete(phil)'.
caseEatEndNoDelete(R, phil) ==
    [R EXCEPT !.sequenceErrors =
                  IF phil \notin R.currentlyEating
                  THEN Append(@, [index |-> R.i, error |-> EndedNotEating(phil)])
                  ELSE @,
              !.mealsPerPhilosopher[phil] = @ + 1]

\* case 'EAT_END'
caseEatEnd(R, phil) ==
    [R EXCEPT !.sequenceErrors =
                  IF phil \notin R.currentlyEating
                  THEN Append(@, [index |-> R.i, error |-> EndedNotEating(phil)])
                  ELSE @,
              !.currentlyEating = @ \ {phil},
              !.mealsPerPhilosopher[phil] = @ + 1]

\* One pass of the for loop over entry = log[i], and i++.
analyzeEntry(R, entry, len) ==
    LET R1 == CASE entry.event = "EAT_START" -> caseEatStart(R, entry.phil, len)
                [] entry.event = "EAT_END" -> caseEatEnd(R, entry.phil)
                [] OTHER -> R
    IN  [R1 EXCEPT !.i = @ + 1]

AnalyzeStep ==
    /\ strategy = "analyze"
    /\ analysis.i < Len(eventLog)
    /\ analysis' = analyzeEntry(analysis, eventLog[analysis.i + 1], n)
    /\ UNCHANGED <<driver, n, forks, philosophers, eventLog, currentAlgorithm,
                   currentRunId, observed, conductor, capacity, strategy, count,
                   pc, i, frame, thrown, calls, lastCall>>

\* ---- specifications -----------------------------------------------------
Strategies == {"naive", "asymmetric", "conductor", "simultaneous"}

EatKinds == {"EAT_START", "EAT_END"}

\* The projections of the log a run may keep on a ring of len actors: the eat
\* events of every actor, or every event of one actor; on the ring of two,
\* the whole log.
Views(len) ==
    {(0 .. (len - 1)) \X EatKinds}
        \cup {{a} \X EventKinds : a \in 0 .. (len - 1)}
        \cup (IF len = 2 THEN {(0 .. (len - 1)) \X EventKinds} ELSE {})

InitRun(len, alg, cnt, kinds) ==
    /\ n = len
    /\ forks = [f \in 0 .. (len - 1) |-> Fork(f)]
    /\ philosophers = [p \in 0 .. (len - 1) |-> Philosopher(p, len)]
    /\ eventLog = <<>>
    /\ currentAlgorithm = alg
    /\ currentRunId = "run1"
    /\ observed = kinds
    /\ capacity = (IF alg = "conductor" THEN len - 1 ELSE 0)
    /\ conductor = Conductor(capacity)
    /\ strategy = alg
    /\ count = cnt
    /\ pc = [p \in 0 .. (len - 1) |-> "start"]
    /\ i = [p \in 0 .. (len - 1) |-> 0]
    /\ frame = [p \in 0 .. (len - 1) |-> NoFrame]
    /\ thrown = [p \in 0 .. (len - 1) |-> NoError]
    /\ calls = 0
    /\ lastCall = NoCall
    /\ analysis = NoAnalysis
    /\ driver = NoDriver

\* Runs of every strategy: a ring of len >= 2 actors and a meal count cnt
\* with len + cnt <= MaxSize.
Init ==
    \E len \in 2 .. MaxSize, alg \in Strategies :
        \E cnt \in 0 .. (MaxSize - len), view \in Views(len) :
            InitRun(len, alg, cnt, view)

Next ==
    \/ \E p \in Ids : NaiveStart(p)
    \/ \E p \in Ids : NaiveSecond(p)
    \/ \E p \in Ids : NaiveEatStart(p)
    \/ \E p \in Ids : NaiveEatEnd(p)
    \/ \E p \in Ids : AcquireRetry(p)
    \/ \E p \in Ids : AsymStart(p)
    \/ \E p \in Ids : AsymSecond(p)
    \/ \E p \in Ids : AsymEatStart(p)
    \/ \E p \in Ids : AsymEatEnd(p)
    \/ \E p \in Ids : CondStart(p)
    \/ \E p \in Ids : CondSeated(p)
    \/ \E p \in Ids : CondSecond(p)
    \/ \E p \in Ids : CondEatStart(p)
    \/ \E p \in Ids : CondEatEnd(p)
    \/ \E p \in Ids : SimStart(p)
    \/ \E p \in Ids : SimRetry(p)
    \/ \E p \in Ids : SimEatStart(p)
    \/ \E p \in Ids : SimEatEnd(p)

Spec == Init /\ [][Next]_vars

\* The three deadlock-avoiding strategies on the ring of N = 5, every task
\* scheduled fairly: node's event loop runs every resolved continuation and
\* every expired timer.
InitLive ==
    \E alg \in Strategies \ {"naive"}, cnt \in 1 .. LiveMeals :
        InitRun(N, alg, cnt, (0 .. (N - 1)) \X {"EAT_END"})

StepLive(p) ==
    \/ AcquireRetry(p)
    \/ AsymStart(p)
    \/ AsymSecond(p)
    \/ AsymEatStart(p)
    \/ AsymEatEnd(p)
    \/ CondStart(p)
    \/ CondSeated(p)
    \/ CondSecond(p)
    \/ CondEatStart(p)
    \/ CondEatEnd(p)
    \/ SimStart(p)
    \/ SimRetry(p)
    \/ SimEatStart(p)
    \/ SimEatEnd(p)

NextLive ==
    \/ \E p \in Ids : AcquireRetry(p)
    \/ \E p \in Ids : AsymStart(p)
    \/ \E p \in Ids : AsymSecond(p)
    \/ \E p \in Ids : AsymEatStart(p)
    \/ \E p \in Ids : AsymEatEnd(p)
    \/ \E p \in Ids : CondStart(p)
    \/ \E p \in Ids : CondSeated(p)
    \/ \E p \in Ids : CondSecond(p)
    \/ \E p \in Ids : CondEatStart(p)
    \/ \E p \in Ids : CondEatEnd(p)
    \/ \E p \in Ids : SimStart(p)
    \/ \E p \in Ids : SimRetry(p)
    \/ \E p \in Ids : SimEatStart(p)
    \/ \E p \in Ids : SimEatEnd(p)

SpecLive ==
    InitLive /\ [][NextLive]_vars /\ \A p \in 0 .. (N - 1) : WF_vars(StepLive(p))

\* Fork.acquire and Fork.release called in any order by the requesters
\* 0 .. len-1 on len forks fresh from the constructor.
InitFork ==
    \E len \in 2 .. 2 :
        /\ n = len
        /\ forks = [f \in 0 .. (len - 1) |-> Fork(f)]
        /\ philosophers = [p \in 0 .. (len - 1) |-> Philosopher(p, len)]
        /\ eventLog = <<>>
        /\ currentAlgorithm = "unknown"
        /\ currentRunId = "null"
        /\ observed = (0 .. (len - 1)) \X EventKinds
        /\ capacity = 0
        /\ conductor = Conductor(capacity)
        /\ strategy = "none"
        /\ count = 0
        /\ pc = [p \in 0 .. (len - 1) |-> "idle"]
        /\ i = [p \in 0 .. (len - 1) |-> 0]
        /\ frame = [p \in 0 .. (len - 1) |-> NoFrame]
        /\ thrown = [p \in 0 .. (len - 1) |-> NoError]
        /\ calls = 0
        /\ lastCall = NoCall
        /\ analysis = NoAnalysis
        /\ driver = NoDriver

NextFork ==
    \/ \E p \in Ids, f \in Ids : \E fks \in ForkLists(p, f) : CallAcquire(p, f, fks)
    \/ \E p \in Ids, f \in Ids : \E fks \in ForkLists(p, f) : CallRelease(p, f, fks)
    \/ \E p \in Ids : AcquireRetry(p)

SpecFork == InitFork /\ [][NextFork]_vars

\* requestSeat and leaveSeat called in any order by len actors on a
\* Conductor constructed with any capacity cap from 0 to len.
InitSeat ==
    \E len \in 2 .. MaxSize :
        \E cap \in 0 .. len :
            /\ n = len
            /\ forks = [f \in 0 .. (len - 1) |-> Fork(f)]
            /\ philosophers = [p \in 0 .. (len - 1) |-> Philosopher(p, len)]
            /\ eventLog = <<>>
            /\ currentAlgorithm = "unknown"
            /\ currentRunId = "null"
            /\ observed = (0 .. (len - 1)) \X EventKinds
            /\ capacity = cap
            /\ conductor = Conductor(cap)
            /\ strategy = "none"
            /\ count = 0
            /\ pc = [p \in 0 .. (len - 1) |-> "idle"]
            /\ i = [p \in 0 .. (len - 1) |-> 0]
            /\ frame = [p \in 0 .. (len - 1) |-> NoFrame]
            /\ thrown = [p \in 0 .. (len - 1) |-> NoError]
            /\ calls = 0
            /\ lastCall = NoCall
            /\ analysis = NoAnalysis
            /\ driver = NoDriver

NextSeat ==
    \/ \E p \in Ids : CallRequestSeat(p)
    \/ \E p \in Ids : CallLeaveSeat(p)

SpecSeat == InitSeat /\ [][NextSeat]_vars

\* startRun, Philosopher.log and clearEventLog called in any order on the
\* module as loaded: no run started, the log empty.
InitLog ==
    \E len \in 2 .. 2 :
        /\ n = len
        /\ forks = [f \in 0 .. (len - 1) |-> Fork(f)]
        /\ philosophers = [p \in 0 .. (len - 1) |-> Philosopher(p, len)]
        /\ eventLog = <<>>
        /\ currentAlgorithm = "unknown"
        /\ currentRunId = "null"
        /\ observed = (0 .. (len - 1)) \X EventKinds
        /\ capacity = 0
        /\ conductor = Conductor(capacity)
        /\ strategy = "log"
        /\ count = 0
        /\ pc = [p \in 0 .. (len - 1) |-> "idle"]
        /\ i = [p \in 0 .. (len - 1) |-> 0]
        /\ frame = [p \in 0 .. (len - 1) |-> NoFrame]
        /\ thrown = [p \in 0 .. (len - 1) |-> NoError]
        /\ calls = 0
        /\ lastCall = NoCall
        /\ analysis = NoAnalysis
        /\ driver = NoDriver

NextLog ==
    \/ \E algorithm \in AlgorithmNames, id \in RunIds : CallStartRun(algorithm, id)
    \/ \E p \in Ids, event \in EventKinds : CallLog(p, event)
    \/ CallClearEventLog

SpecLog == InitLog /\ [][NextLog]_vars

\* The event kinds of the sequences given to analyzeLog: the two it acts on
\* and one of those it passes over.
AnalyzedKinds == {"EAT_START", "EAT_END", "TRY"}

RECURSIVE SeqsUpTo(_, _)
SeqsUpTo(S, k) ==
    IF k = 0 THEN {<<>>}
    ELSE LET shorter == SeqsUpTo(S, k - 1)
         IN  shorter \cup {Append(L, e) : L \in shorter, e \in S}

\* analyzeLog(log, len) on any sequence of at most MaxLen events of the
\* actors 0 .. len-1, well-formed or not.
InitAnalyze ==
    \E len \in 2 .. 3 :
        \E L \in SeqsUpTo({[runId |-> "k3x9ab", algorithm |-> "asymmetric",
                            phil |-> a, event |-> e,
                            forks |-> <<a, (a + 1) % len>>] :
                               a \in 0 .. (len - 1), e \in AnalyzedKinds}, MaxLen) :
            /\ n = len
            /\ forks = [f \in 0 .. (len - 1) |-> Fork(f)]
            /\ philosophers = [p \in 0 .. (len - 1) |-> Philosopher(p, len)]
            /\ eventLog = L
            /\ currentAlgorithm = "asymmetric"
            /\ currentRunId = "k3x9ab"
            /\ observed = (0 .. (len - 1)) \X EventKinds
            /\ capacity = 0
            /\ conductor = Conductor(capacity)
            /\ strategy = "analyze"
            /\ count = 0
            /\ pc = [p \in 0 .. (len - 1) |-> "idle"]
            /\ i = [p \in 0 .. (len - 1) |-> 0]
            /\ frame = [p \in 0 .. (len - 1) |-> NoFrame]
            /\ thrown = [p \in 0 .. (len - 1) |-> NoError]
            /\ calls = 0
            /\ lastCall = NoCall
            /\ analysis = NewAnalysis(len)
            /\ driver = NoDriver

NextAnalyze == AnalyzeStep

SpecAnalyze == InitAnalyze /\ [][NextAnalyze]_vars

\* ---- reading the log ----------------------------------------------------
EatView == Ids \X EatKinds \subseteq observed

FullView == Ids \X EventKinds \subseteq observed

Left(a) == (a - 1 + n) % n

Right(a) == (a + 1) % n

\* Actor b is between its EAT_START and its EAT_END just before entry j.
RECURSIVE EatingBefore(_, _, _)
EatingBefore(L, b, j) ==
    IF j <= 1 THEN FALSE
    ELSE IF L[j - 1].phil = b /\ L[j - 1].event = "EAT_START" THEN TRUE
    ELSE IF L[j - 1].phil = b /\ L[j - 1].event = "EAT_END" THEN FALSE
    ELSE EatingBefore(L, b, j - 1)

\* The entries a step appended to the log.
Appended == SubSeq(eventLog', Len(eventLog) + 1, Len(eventLog'))

Entry(philId, event, fks) ==
    [runId |-> currentRunId, algorithm |-> currentAlgorithm, phil |-> philId,
     event |-> event, forks |-> fks]

\* ---- C1 ------------------------------------------------------------------
\* C1: in a run of any strategy no EAT_START of actor a is logged while its
\* left or right ring neighbour is between its own EAT_START and EAT_END,
\* and no two ring-adjacent actors are in their eating delay together.
MutualExclusion ==
    /\ \A j \in 1 .. Len(eventLog) :
          eventLog[j].event = "EAT_START" =>
              /\ ~EatingBefore(eventLog, Left(eventLog[j].phil), j)
              /\ ~EatingBefore(eventLog, Right(eventLog[j].phil), j)
    /\ \A a \in Ids : pc[a] = "eating" =>
          pc[Left(a)] # "eating" /\ pc[Right(a)] # "eating"

\* Two ring-adjacent actors have both eaten, every eat event is in the log,
\* and the ring has three actors or more.
MutualExclusionWitness ==
    /\ EatView /\ n >= 3
    /\ \E j, k \in 1 .. Len(eventLog) :
          /\ eventLog[j].event = "EAT_START" /\ eventLog[k].event = "EAT_START"
          /\ eventLog[k].phil = Right(eventLog[j].phil)
    /\ \E a \in Ids : pc[a] = "eating" /\ pc[Right(a)] = "delay"

\* ---- C3 ------------------------------------------------------------------
\* Every actor of a naive run holds its left fork and is in a backoff wait
\* of the acquire of its right fork.
Deadlocked ==
    /\ strategy = "naive"
    /\ \A p \in Ids :
          /\ pc[p] = "delay"
          /\ frame[p].fork = philosophers[p].f2
          /\ forks[philosophers[p].f1].holder = philosophers[p].id

\* C3: once every actor of a naive run holds its left fork and retries its
\* right one, every later step leaves them so: no fork changes hands, no
\* event (so no EAT_START) is logged and no actor completes.
NaiveDeadlockIsStuck ==
    [][Deadlocked =>
          /\ Deadlocked'
          /\ forks' = forks
          /\ eventLog' = eventLog
          /\ pc' = pc]_vars

NaiveDeadlockWitness == Deadlocked /\ n >= 3 /\ \E p \in Ids : frame[p].k >= 2

\* ---- C4 ------------------------------------------------------------------
HeldIffHolder == \A f \in Ids : (forks[f].state = 1) <=> (forks[f].holder # NULL)

ReleaseStep == calls' = calls + 1 /\ lastCall'.op = "release"

AcquireStep == calls' = calls + 1 /\ lastCall'.op = "acquire"

\* C4: after any acquire and release calls a fork is held iff its holder is
\* set, and it goes from held to free only in a release call on that fork
\* whose requester is the holder.
ForkInvariant ==
    /\ []HeldIffHolder
    /\ [][\A f \in Ids :
            forks[f].state = 1 /\ forks'[f].state = 0 =>
                /\ ReleaseStep
                /\ lastCall'.fork = f
                /\ lastCall'.requesterId = forks[f].holder]_vars

\* A fork freed by its holder's release, after a release by a requester who
\* is not its holder had failed.
ForkInvariantWitness ==
    /\ lastCall.op = "release" /\ lastCall.error = NoError
    /\ forks[lastCall.fork].state = 0
    /\ \E p \in Ids : thrown[p] # NoError /\ p # lastCall.requesterId

\* ---- C5 ------------------------------------------------------------------
AcquiresIn(L) == {j \in 1 .. Len(L) : L[j].event = "ACQUIRE"}

\* C5: a fork gets a holder only when it is free, with one ACQUIRE event of
\* the new holder; it loses its holder only with a RELEASE event of that
\* holder; so it never passes from one holder to another, and a step logs
\* as many ACQUIRE events as forks were taken.
ExclusiveHold ==
    [][/\ \A f \in Ids :
            /\ forks'[f].holder # forks[f].holder /\ forks'[f].holder # NULL =>
                  /\ forks[f].holder = NULL /\ forks[f].state = 0
                  /\ Appended # <<>>
                  /\ Appended[Len(Appended)].event = "ACQUIRE"
                  /\ Appended[Len(Appended)].phil = forks'[f].holder
            /\ forks'[f].holder # forks[f].holder /\ forks[f].holder # NULL =>
                  /\ forks'[f].holder = NULL
                  /\ Appended = <<Entry(forks[f].holder, "RELEASE", lastCall'.forks)>>
       /\ Cardinality(AcquiresIn(Appended))
              = Cardinality({f \in Ids : forks'[f].holder # forks[f].holder
                                         /\ forks'[f].holder # NULL})]_vars

\* A fork acquired by one actor after another had held and released it while
\* the first was waiting for it.
ExclusiveHoldWitness ==
    \E f \in Ids :
        /\ forks[f].holder # NULL
        /\ Len(eventLog) >= 5
        /\ eventLog[2].event = "ACQUIRE" /\ eventLog[2].phil # forks[f].holder
        /\ eventLog[3].event = "TRY" /\ eventLog[3].phil = forks[f].holder
        /\ eventLog[4].event = "RELEASE"
        /\ eventLog[5].event = "ACQUIRE" /\ eventLog[5].phil = forks[f].holder
        /\ lastCall.fork = f

\* ---- C6 ------------------------------------------------------------------
Digit(v) == CASE v = NULL -> "null" [] v = 0 -> "0" [] v = 1 -> "1"
                 [] v = 2 -> "2" [] v = 3 -> "3" [] OTHER -> "?"

\* C6: a release whose requester is not the fork's holder, a fork without
\* holder included, fails with the error text 'Philosopher <requester>
\* cannot release fork held by <holder>'.
ReleaseByNonHolderFails ==
    [][ReleaseStep /\ forks[lastCall'.fork].holder # lastCall'.requesterId =>
          /\ lastCall'.error = "Philosopher " \o Digit(lastCall'.requesterId)
                                 \o " cannot release fork held by "
                                 \o Digit(forks[lastCall'.fork].holder)
          /\ thrown'[lastCall'.requesterId] = lastCall'.error]_vars

\* Both failures have happened: the fork of the last release is held by
\* another actor, and an earlier failed release found no holder.
ReleaseByNonHolderWitness ==
    /\ lastCall.op = "release"
    /\ lastCall.error = "Philosopher 1 cannot release fork held by 0"
    /\ \E p \in Ids : thrown[p] = "Philosopher 0 cannot release fork held by null"

\* ---- C7 ------------------------------------------------------------------
\* C7: a release that fails leaves every fork's state and holder as they
\* were and appends nothing to the event log.
FailedReleaseChangesNothing ==
    [][ReleaseStep /\ lastCall'.error # NoError =>
          forks' = forks /\ eventLog' = eventLog]_vars

\* A failed release on a held fork, with events already in the log.
FailedReleaseWitness ==
    /\ lastCall.op = "release" /\ lastCall.error # NoError
    /\ forks[lastCall.fork].holder # NULL
    /\ eventLog # <<>>

TakenBy(f, p) == [id |-> f, state |-> 1, holder |-> p]

Resumed(p) == pc[p] = "delay" /\ (pc'[p] # "delay" \/ frame'[p] # frame[p])

\* C9: an acquire call logs one TRY first; it completes only in a step that
\* finds the fork free, and that step makes the fork held by the requester
\* and logs one ACQUIRE; on a busy fork the call changes no fork, logs
\* nothing more, raises no error and waits.
AcquireProtocol ==
    [][/\ AcquireStep =>
            LET p == lastCall'.requesterId
                f == lastCall'.fork
                try == Entry(p, "TRY", lastCall'.forks)
                acq == Entry(p, "ACQUIRE", lastCall'.forks)
            IN  /\ thrown' = thrown
                /\ IF forks[f].state = 0
                   THEN /\ eventLog' = eventLog \o <<try, acq>>
                        /\ forks' = [forks EXCEPT ![f] = TakenBy(f, p)]
                        /\ pc'[p] = "idle"
                   ELSE /\ eventLog' = Append(eventLog, try)
                        /\ forks' = forks
                        /\ pc'[p] = "delay"
       /\ \A p \in Ids : Resumed(p) =>
            LET f == frame[p].fork
            IN  /\ thrown' = thrown
                /\ IF forks[f].state = 0
                   THEN /\ eventLog' = Append(eventLog,
                                              Entry(p, "ACQUIRE", frame[p].forks))
                        /\ forks' = [forks EXCEPT ![f] = TakenBy(f, p)]
                        /\ pc'[p] = "idle"
                   ELSE /\ eventLog' = eventLog
                        /\ forks' = forks
                        /\ pc'[p] = "delay"]_vars

\* An acquire that found the fork busy, waited, and took it once released.
AcquireProtocolWitness ==
    \E p \in Ids :
        /\ lastCall.op = "release" /\ lastCall.error = NoError
        /\ forks[lastCall.fork].holder = p
        /\ p # lastCall.requesterId
        /\ eventLog[Len(eventLog)] = Entry(p, "ACQUIRE", <<lastCall.fork>>)

\* ---- C10 -----------------------------------------------------------------
InWait(p) == pc[p] \in {"delay", "delayBoth"}

\* C10: the k-th wait of an acquire call lasts min(2^(k-1), 1000): 1 first,
\* then doubling, never above 1000 (k stops counting at MaxWaits).
BackoffSchedule ==
    \A p \in Ids : InWait(p) =>
        /\ frame[p].k >= 1
        /\ frame[p].waitTime <= 1000
        /\ frame[p].k < MaxWaits =>
              frame[p].waitTime = Min(Pow2(frame[p].k - 1), 1000)
        /\ frame[p].k = MaxWaits =>
              frame[p].waitTime >= Min(Pow2(frame[p].k - 1), 1000)

\* The eleventh wait, the first one the cap shortens (2^10 = 1024).
BackoffScheduleWitness ==
    \E p \in Ids : pc[p] = "delay" /\ frame[p].k = 11 /\ frame[p].waitTime = 1000

\* ---- C2 ------------------------------------------------------------------
AllDone == \A p \in Ids : pc[p] = "done"

\* The completed-meal count of actor a: its EAT_END entries in the log.
Meals(a) ==
    Cardinality({j \in 1 .. Len(eventLog) :
                    eventLog[j].phil = a /\ eventLog[j].event = "EAT_END"})

\* How far task p has come: iterations, then the stage of the iteration,
\* then the waits of the pending acquire.
StageOf ==
    [x \in {"start", "done", "failed", "idle", "seatwait", "seated", "delay",
            "delayBoth", "second", "eat", "eating"} |->
        CASE x \in {"start", "done", "idle"} -> 0
          [] x = "failed" -> 8
          [] x = "seatwait" -> 1
          [] x = "seated" -> 2
          [] x \in {"delay", "delayBoth"} -> 3
          [] x = "second" -> 4
          [] x = "eat" -> 6
          [] x = "eating" -> 7]

Rank(p) ==
    i[p] * 100000
        + (StageOf[pc[p]] + (IF pc[p] = "delay" /\ frame[p].ret = "eat" THEN 2 ELSE 0))
              * 10000
        + frame[p].waitTime + frame[p].k

Stalled == ~ENABLED <<NextLive>>_vars

Terminates == <>(AllDone /\ \A a \in Ids : Meals(a) = count)

Holds(p, f) == forks[f].holder = philosophers[p].id

\* The entries of actor p in the log, in order.
Own(p) == SelectSeq(eventLog, LAMBDA e : e.phil = philosophers[p].id)

AllOf(p) == {p} \X EventKinds \subseteq observed

\* The forks that become actor p's in a step.
Gained(p) ==
    {f \in Ids : forks'[f].holder = philosophers[p].id
                 /\ forks[f].holder # philosophers[p].id}

\* Every ACQUIRE entry of p directly follows a TRY entry of p for the same
\* forks: the pair Fork.acquire logs.
TryThenAcquire(p) ==
    \A j \in 1 .. Len(Own(p)) :
        Own(p)[j].event = "ACQUIRE" =>
            /\ j > 1
            /\ Own(p)[j - 1].event = "TRY"
            /\ Own(p)[j - 1].forks = Own(p)[j].forks

Occupied == {p \in Ids : pc[p] = "seated"}

\* C12: whatever the order of the requestSeat calls and of the leaveSeat
\* calls of seated actors, the actors holding a seat are never more than
\* the capacity the Conductor was constructed with, and the Conductor's
\* count of free seats never falls below zero.
SeatsWithinCapacity ==
    /\ Cardinality(Occupied) <= capacity
    /\ conductor.seats >= 0

\* Every seat of a Conductor of two seats or more is held, another actor is
\* queued for one, and an actor that could ask has not.
SeatsWithinCapacityWitness ==
    /\ capacity >= 2 /\ Cardinality(Occupied) = capacity
    /\ conductor.waiting # <<>>
    /\ pc[0] = "idle" /\ pc[n - 1] = "seated"
    /\ lastCall.op = "requestSeat"

\* ---- C13 -----------------------------------------------------------------
Waiters == {conductor.waiting[j] : j \in 1 .. Len(conductor.waiting)}

LeaveBy(p) == pc[p] = "seated" /\ pc'[p] = "idle"

RequestBy(p) == pc[p] = "idle" /\ pc'[p] # "idle"

\* C13: the queue holds the suspended requestSeat callers in arrival order
\* and only while no seat is free; a leaveSeat on a non-empty queue resumes
\* its head with the freed seat and frees no seat; a requestSeat on a
\* non-empty queue joins its end; so no caller is granted a seat ahead of a
\* queued one.
SeatsGrantedInOrder ==
    /\ [](/\ conductor.waiting # <<>> => conductor.seats = 0
          /\ Waiters = {p \in Ids : pc[p] = "seatwait"}
          /\ Cardinality(Waiters) = Len(conductor.waiting))
    /\ [][\A p \in Ids :
            /\ LeaveBy(p) /\ conductor.waiting # <<>> =>
                  /\ pc'[Head(conductor.waiting)] = "seated"
                  /\ conductor'.waiting = Tail(conductor.waiting)
                  /\ conductor'.seats = conductor.seats
                  /\ Occupied' = (Occupied \ {p}) \cup {Head(conductor.waiting)}
            /\ RequestBy(p) /\ conductor.waiting # <<>> =>
                  /\ pc'[p] = "seatwait"
                  /\ conductor'.waiting = Append(conductor.waiting, p)
                  /\ Occupied' = Occupied
            /\ pc[p] = "seatwait" /\ pc'[p] # "seatwait" =>
                  /\ p = Head(conductor.waiting)
                  /\ pc'[p] = "seated"]_vars

\* The only seat has just been left and handed to the head of a queue of
\* two, and the second caller still waits.
SeatsGrantedInOrderWitness ==
    /\ capacity = 1 /\ n = 4
    /\ lastCall.op = "leaveSeat" /\ lastCall.requesterId = 3
    /\ conductor.waiting = <<0>>
    /\ pc[1] = "seated" /\ pc[3] = "idle" /\ pc[2] = "idle"

\* ---- C14 -----------------------------------------------------------------
\* Actor p is between a granted requestSeat and the matching leaveSeat.
Seated(p) == pc[p] \in {"seated", "delay", "second", "eat", "eating"}

LogsTry(p) ==
    \E j \in 1 .. Len(Appended) :
        Appended[j].phil = philosophers[p].id /\ Appended[j].event = "TRY"

\* C14: in a run of startConductor on a Conductor of n-1 seats at most n-1
\* actors are seated at a time and only a seated actor holds a fork; an
\* actor logs TRY only in a step it begins seated, so after its requestSeat
\* was granted; it gives its seat up only in the step after its eating
\* delay, which logs EAT_END and two RELEASEs and leaves it without a fork.
ConductorGate ==
    /\ [](strategy = "conductor" =>
            /\ Cardinality({p \in Ids : Seated(p)}) <= n - 1
            /\ Cardinality({p \in Ids : Seated(p)}) = capacity - conductor.seats
            /\ \A p \in Ids : \A f \in Ids : Holds(p, f) => Seated(p))
    /\ [][strategy = "conductor" =>
            \A p \in Ids :
                /\ AllOf(p) /\ LogsTry(p) => pc[p] \in {"seated", "second"}
                /\ Seated(p) /\ ~Seated(p)' => pc[p] = "eating"
                /\ pc[p] = "eating" /\ pc'[p] # "eating" =>
                      /\ \A f \in Ids : forks'[f].holder # philosophers[p].id
                      /\ AllOf(p) =>
                            /\ Len(Appended) = 3
                            /\ Appended[1].event = "EAT_END"
                            /\ Appended[2].event = "RELEASE"
                            /\ Appended[3].event = "RELEASE"]_vars

\* Every seat but the last actor's is taken: n-1 actors are seated, one of
\* them eating, and the remaining actor waits in the queue having logged
\* nothing.
ConductorGateWitness ==
    /\ strategy = "conductor" /\ n >= 3
    /\ Cardinality({p \in Ids : Seated(p)}) = n - 1
    /\ \E p \in Ids : pc[p] = "eating"
    /\ \E p \in Ids :
          /\ pc[p] = "seatwait" /\ AllOf(p) /\ Own(p) = <<>>
          /\ conductor.waiting = <<p>>

\* ---- C15 -----------------------------------------------------------------
\* An ACQUIRE entry lists the two forks of its actor.
ListsBoth(e) ==
    /\ Len(e.forks) = 2
    /\ {e.forks[1], e.forks[2]} = {e.phil, (e.phil + 1) % n}
    /\ e.forks[1] # e.forks[2]

\* C15: in a run of startSimultaneous every ACQUIRE entry of actor a lists
\* exactly its two forks a and (a+1) mod n; the step that logs it leaves both
\* held by a, having found both free or released both itself; and a step in
\* which a gains a fork logs one such entry.
DualAcquireEntry ==
    /\ [](strategy = "simultaneous" =>
            \A j \in 1 .. Len(eventLog) :
                eventLog[j].event = "ACQUIRE" => ListsBoth(eventLog[j]))
    /\ [][strategy = "simultaneous" =>
            /\ \A j \in 1 .. Len(Appended) :
                  Appended[j].event = "ACQUIRE" =>
                      LET a == Appended[j].phil
                      IN  /\ j = Len(Appended)
                          /\ \A f \in {a, (a + 1) % n} :
                                /\ forks'[f].holder = a /\ forks'[f].state = 1
                                /\ forks[f].holder \in {NULL, a}
                                /\ forks[f].holder = a => pc[a] = "eating"
            /\ \A p \in Ids :
                  Gained(p) # {} =>
                      /\ Gained(p) = {philosophers[p].f1, philosophers[p].f2}
                      /\ AllOf(p) =>
                            /\ Appended # <<>>
                            /\ Appended[Len(Appended)].event = "ACQUIRE"
                            /\ Appended[Len(Appended)].phil = p]_vars

\* The last actor of the ring is about to eat: its ACQUIRE entry, the last
\* of the log, lists forks n-1 and 0, after its left neighbour has finished.
DualAcquireEntryWitness ==
    /\ strategy = "simultaneous" /\ n >= 3
    /\ AllOf(n - 1) /\ pc[n - 1] = "eat" /\ pc[n - 2] = "done"
    /\ eventLog # <<>>
    /\ eventLog[Len(eventLog)] = Entry(n - 1, "ACQUIRE", <<n - 1, 0>>)

\* ---- C16 -----------------------------------------------------------------
PairFree(p) ==
    forks[philosophers[p].f1].state = 0 /\ forks[philosophers[p].f2].state = 0

HoldsBoth(p) == Holds(p, philosophers[p].f1) /\ Holds(p, philosophers[p].f2)

HoldsNone(p) == ~Holds(p, philosophers[p].f1) /\ ~Holds(p, philosophers[p].f2)

\* Actor p runs a check of its pair in this step: its first, or one after a
\* backoff wait.
Checks(p) ==
    \/ pc[p] = "start" /\ pc'[p] \notin {"start", "done"}
    \/ pc[p] = "delayBoth" /\ (pc'[p] # "delayBoth" \/ frame'[p] # frame[p])

\* C16: in a run of startSimultaneous an actor holds both of its forks or
\* none in every state, none while suspended in its TRY-ACQUIRE phase and
\* both once the phase has ended; a check that finds one of the two forks
\* held changes no fork and suspends the actor, a check that finds both
\* free takes both.
AllOrNothing ==
    /\ [](strategy = "simultaneous" =>
            \A p \in Ids :
                /\ HoldsBoth(p) \/ HoldsNone(p)
                /\ pc[p] \in {"start", "delayBoth", "done"} => HoldsNone(p)
                /\ pc[p] \in {"eat", "eating"} => HoldsBoth(p))
    /\ [][strategy = "simultaneous" =>
            \A p \in Ids :
                Checks(p) =>
                    IF PairFree(p)
                    THEN pc'[p] = "eat" /\ HoldsBoth(p)'
                    ELSE /\ pc'[p] = "delayBoth"
                         /\ forks' = forks
                         /\ \A j \in 1 .. Len(Appended) :
                               Appended[j].event # "ACQUIRE"]_vars

\* An actor has rechecked and waits without a fork while one fork of its
\* pair is free and the other is held by its eating neighbour.
AllOrNothingWitness ==
    /\ strategy = "simultaneous" /\ n >= 3
    /\ \E p \in Ids :
          /\ pc[p] = "delayBoth" /\ frame[p].k >= 2
          /\ forks[philosophers[p].f1].state = 0
          /\ forks[philosophers[p].f2].state = 1
          /\ pc[Right(p)] = "eating"

\* ---- C17 -----------------------------------------------------------------
EatsOf(p) ==
    SelectSeq(eventLog, LAMBDA e : e.phil = philosophers[p].id
                                   /\ e.event \in EatKinds)

EatsSeen(p) == {p} \X EatKinds \subseteq observed

\* C17: in the log of a run of any strategy the EAT_START and EAT_END
\* entries of an actor alternate, beginning with EAT_START: each EAT_END
\* has exactly one EAT_START of the actor between it and the actor's
\* previous EAT_END.
EatEventsAlternate ==
    \A p \in Ids :
        EatsSeen(p) =>
            \A j \in 1 .. Len(EatsOf(p)) :
                EatsOf(p)[j].event = (IF j % 2 = 1 THEN "EAT_START" ELSE "EAT_END")

\* Both actors of a naive run on the ring of two have had their two meals,
\* actor 1 the first of the log and actor 0 the last.
EatEventsAlternateWitness ==
    /\ strategy = "naive" /\ n = 2 /\ count = 2 /\ EatView
    /\ Len(eventLog) = 8
    /\ Len(EatsOf(0)) = 4 /\ Len(EatsOf(1)) = 4
    /\ eventLog[1].phil = 1 /\ eventLog[8].phil = 0

\* ---- C18 -----------------------------------------------------------------
CountOf(p, event) ==
    Cardinality({j \in 1 .. Len(eventLog) :
                    eventLog[j].phil = philosophers[p].id
                    /\ eventLog[j].event = event})

\* C18: when an actor's startNaive(count) has completed, the actor has
\* logged exactly count EAT_START and exactly count EAT_END entries, for
\* every count from 0 up and whatever the other actors have done.
NaiveCompletesAfterCount ==
    strategy = "naive" =>
        \A p \in Ids :
            pc[p] = "done" =>
                /\ i[p] = count
                /\ EatsSeen(p) =>
                      /\ CountOf(p, "EAT_START") = count
                      /\ CountOf(p, "EAT_END") = count

\* Actor 0 has completed startNaive(2) with two meals logged while actor 1
\* is still waiting for a fork.
NaiveCompletesAfterCountWitness ==
    /\ strategy = "naive" /\ count = 2 /\ EatView
    /\ pc[0] = "done" /\ pc[1] = "delay"
    /\ CountOf(0, "EAT_END") = 2 /\ CountOf(1, "EAT_END") = 0

\* ---- C19 -----------------------------------------------------------------
\* C19: once an actor's strategy run has completed, in any of the four
\* strategies, no fork has that actor as its holder, in that state and in
\* every later one.
TerminatedHoldsNothing ==
    \A p \in Ids :
        pc[p] = "done" => \A f \in Ids : forks[f].holder # philosophers[p].id

\* An actor has completed after a meal and one of its own two forks is now
\* held by its neighbour, which is eating.
TerminatedHoldsNothingWitness ==
    /\ n >= 3
    /\ \E p \in Ids :
          /\ pc[p] = "done" /\ i[p] >= 1
          /\ pc[Right(p)] = "eating"
          /\ forks[philosophers[p].f2].holder = philosophers[Right(p)].id

\* ---- C20 -----------------------------------------------------------------
\* The actors that reference fork f as their left or their right fork.
UsersOf(f) ==
    {p \in Ids : philosophers[p].f1 = f \/ philosophers[p].f2 = f}

\* The references to fork f, counted as the topology test counts them.
UsageOf(f) ==
    Cardinality({p \in Ids : philosophers[p].f1 = f})
        + Cardinality({p \in Ids : philosophers[p].f2 = f})

\* C20: on a ring of n >= 2 actor p has left index p and right index p+1,
\* or 0 for the last actor; the right fork of p is the left fork of the
\* next actor; every fork is referenced by exactly two actors, once each;
\* and no step of a strategy run changes an actor's indices.
RingTopology ==
    /\ [](\A p \in Ids :
            /\ philosophers[p].id = p
            /\ philosophers[p].f1 = p
            /\ philosophers[p].f2 = (IF p = n - 1 THEN 0 ELSE p + 1)
            /\ philosophers[p].f2 = philosophers[Right(p)].f1
            /\ philosophers[p].f1 # philosophers[p].f2
            /\ Cardinality(UsersOf(p)) = 2
            /\ UsageOf(p) = 2)
    /\ [][philosophers' = philosophers]_vars

\* On a ring of three the last actor, whose right fork is fork 0, has
\* completed a meal and its neighbours have run.
RingTopologyWitness ==
    /\ n = 3 /\ philosophers[2].f2 = 0
    /\ pc[2] = "done" /\ i[2] = 1
    /\ pc[0] # "start" /\ pc[1] # "start"

\* ---- C21 -----------------------------------------------------------------
CallOf(op) == calls' = calls + 1 /\ lastCall'.op = op

ViolationsAt ==
    {analysis.mutualExclusionViolations[j].index :
        j \in 1 .. Len(analysis.mutualExclusionViolations)}

\* The actors with an EAT_START before the entry of index k that their
\* EAT_END has not yet followed.
OpenBefore(k) == {b \in Ids : EatingBefore(eventLog, b, k + 1)}

\* C22: analyzeLog records a violation at the entry of index k exactly when
\* that entry is an EAT_START of an actor whose left or right neighbour has
\* an EAT_START not yet followed by its EAT_END; its currently-eating set
\* holds exactly those actors; and it leaves the sequence as it was given.
AnalyzerMutualExclusion ==
    /\ [](strategy = "analyze" =>
            /\ \A k \in 0 .. (analysis.i - 1) :
                  k \in ViolationsAt <=>
                      /\ eventLog[k + 1].event = "EAT_START"
                      /\ \/ Left(eventLog[k + 1].phil) \in OpenBefore(k)
                         \/ Right(eventLog[k + 1].phil) \in OpenBefore(k)
            /\ \A k \in ViolationsAt : k < analysis.i
            /\ analysis.currentlyEating = OpenBefore(analysis.i))
    /\ [][eventLog' = eventLog]_vars

\* On a ring of three the analysis of four entries is complete with two
\* violations recorded: at the EAT_START of actor 0 during the meal of its
\* right neighbour 1, and at the EAT_START of actor 2, after actor 1's
\* EAT_END, during the meal of its right neighbour 0.
AnalyzerMutualExclusionWitness ==
    /\ strategy = "analyze" /\ n = 3
    /\ analysis.i = Len(eventLog) /\ Len(eventLog) = 4
    /\ eventLog[1].event = "EAT_START" /\ eventLog[1].phil = 1
    /\ eventLog[2].event = "EAT_START" /\ eventLog[2].phil = 0
    /\ eventLog[3].event = "EAT_END" /\ eventLog[3].phil = 1
    /\ eventLog[4].event = "EAT_START" /\ eventLog[4].phil = 2
    /\ ViolationsAt = {1, 3}

\* ---- C23 -----------------------------------------------------------------
NaivePattern ==
    <<"TRY", "ACQUIRE", "TRY", "ACQUIRE", "EAT_START", "EAT_END", "RELEASE",
      "RELEASE">>

\* The number of events actor p has logged in its current iteration.
InIteration(p) == Len(Own(p)) % Len(NaivePattern)

\* C23: in a run of startNaive an actor's own events repeat the order TRY,
\* ACQUIRE, TRY, ACQUIRE, EAT_START, EAT_END, RELEASE, RELEASE, each with
\* the actor's two forks listed; after the first ACQUIRE it holds its left
\* fork only, from the second ACQUIRE and EAT_START until EAT_END it holds
\* both, and when the next iteration's first TRY is its last event, or the
\* last RELEASE is, it holds neither.
NaiveIterationOrder ==
    strategy = "naive" =>
        \A p \in Ids :
            LET ph == philosophers[p]
            IN  /\ pc[p] = "eating" => HoldsBoth(p)
                /\ AllOf(p) =>
                      /\ \A j \in 1 .. Len(Own(p)) :
                            /\ Own(p)[j].event
                                  = NaivePattern[((j - 1) % Len(NaivePattern)) + 1]
                            /\ Own(p)[j].forks = <<ph.f1, ph.f2>>
                      /\ InIteration(p) \in {0, 1} => HoldsNone(p)
                      /\ InIteration(p) \in {2, 3} =>
                            Holds(p, ph.f1) /\ ~Holds(p, ph.f2)
                      /\ InIteration(p) \in {4, 5} => HoldsBoth(p)
                      /\ InIteration(p) \notin {6, 7}
                      /\ InIteration(p) = 5 <=> pc[p] = "eating"

\* An actor eats in its second iteration, thirteen events logged, while its
\* neighbour waits for a fork.
NaiveIterationOrderWitness ==
    /\ strategy = "naive"
    /\ \E p \in Ids :
          /\ AllOf(p) /\ pc[p] = "eating" /\ Len(Own(p)) = 13
          /\ pc[Right(p)] = "delay"

\* ---- C24 -----------------------------------------------------------------
\* C24: Fork.acquire waits before its first attempt: the step of the call
\* itself, also on a free fork, takes no fork and logs no ACQUIRE; a fork is
\* taken only by a call resumed from a backoff wait.
AcquireWaitsFirst ==
    [][/\ AcquireStep =>
            /\ forks' = forks
            /\ \A j \in 1 .. Len(Appended) : Appended[j].event # "ACQUIRE"
       /\ \A f \in Ids :
            forks[f].state = 0 /\ forks'[f].state = 1 =>
                \E p \in Ids : pc[p] = "delay" /\ frame[p].fork = f]_vars

\* ---- C25 -----------------------------------------------------------------
\* The position of the last EAT_END of actor a before position k of the
\* sequence, 0 when there is none.
LastEndBefore(a, k) ==
    LET ends == {j \in 1 .. (k - 1) :
                    eventLog[j].event = "EAT_END" /\ eventLog[j].phil = a}
    IN  IF ends = {} THEN 0 ELSE CHOOSE j \in ends : \A l \in ends : l <= j

\* The number of EAT_STARTs of actor a before position k with no EAT_END of
\* a between them and k.
StartsSince(a, k) ==
    Cardinality({j \in (LastEndBefore(a, k) + 1) .. (k - 1) :
                    eventLog[j].event = "EAT_START" /\ eventLog[j].phil = a})

\* The positions of the EAT_ENDs among the first m entries.
EndsUpTo(m) == {k \in 1 .. m : eventLog[k].event = "EAT_END"}

\* The indices, from 0, at which analyzeLog has recorded a sequence error.
SequenceErrorsAt ==
    {analysis.sequenceErrors[j].index : j \in 1 .. Len(analysis.sequenceErrors)}

\* C25 as stated: once analyzeLog has read the whole sequence, sequenceErrors
\* is empty exactly when every EAT_END of an actor is preceded, with no
\* EAT_END of that actor in between, by exactly one EAT_START of that actor.
SequenceCheckExactlyOne ==
    strategy = "analyze" /\ analysis.i = Len(eventLog) =>
        (analysis.sequenceErrors = <<>> <=>
            \A k \in EndsUpTo(Len(eventLog)) :
                StartsSince(eventLog[k].phil, k) = 1)

\* C25, amended: once analyzeLog has read the whole sequence, sequenceErrors
\* is empty exactly when every EAT_END of an actor is preceded, with no
\* EAT_END of that actor in between, by at least one EAT_START of that
\* actor; at every point of the pass the errors recorded are those of the
\* EAT_ENDs read so far that no such EAT_START precedes.
SequenceCheckAtLeastOne ==
    strategy = "analyze" =>
        /\ SequenceErrorsAt =
              {k - 1 : k \in {l \in EndsUpTo(analysis.i) :
                                 StartsSince(eventLog[l].phil, l) = 0}}
        /\ analysis.i = Len(eventLog) =>
              (analysis.sequenceErrors = <<>> <=>
                  \A k \in EndsUpTo(Len(eventLog)) :
                      StartsSince(eventLog[k].phil, k) >= 1)

\* The analysis of EAT_START, EAT_START, EAT_END, EAT_END of actor 0 is
\* complete: the first EAT_END, preceded by two EAT_STARTs, is accepted and
\* the second, preceded by none since the first, is the one error.
SequenceCheckAtLeastOneWitness ==
    /\ strategy = "analyze"
    /\ analysis.i = Len(eventLog) /\ Len(eventLog) = 4
    /\ \A j \in 1 .. 4 : eventLog[j].phil = 0
    /\ eventLog[1].event = "EAT_START" /\ eventLog[2].event = "EAT_START"
    /\ eventLog[3].event = "EAT_END" /\ eventLog[4].event = "EAT_END"
    /\ SequenceErrorsAt = {3}
    /\ Len(analysis.sequenceErrors) = 1

\* ---- C26 -----------------------------------------------------------------
\* C26: in a run of startNaive no release raises an ownership error: no
\* actor has an error thrown or a run ended by one, and an actor that eats,
\* whose next step makes its two release calls, is the holder of both of its
\* forks; a step that logs RELEASE leaves the releasing actor's run going or
\* completed.
NaiveNoOwnershipError ==
    /\ [](strategy = "naive" =>
            \A p \in Ids :
                /\ thrown[p] = NoError
                /\ pc[p] # "failed"
                /\ pc[p] = "eating" => HoldsBoth(p))
    /\ [][strategy = "naive" =>
            \A j \in 1 .. Len(Appended) :
                Appended[j].event = "RELEASE" =>
                    \E p \in Ids :
                        /\ philosophers[p].id = Appended[j].phil
                        /\ pc[p] = "eating" /\ HoldsBoth(p)
                        /\ pc'[p] # "failed"
                        /\ thrown'[p] = NoError]_vars

\* On a naive ring of three an actor has made both of its release calls and
\* completed, its right neighbour eats, and its left neighbour waits for a
\* fork.
NaiveNoOwnershipErrorWitness ==
    /\ strategy = "naive" /\ n = 3
    /\ \E p \in Ids :
          /\ pc[p] = "done" /\ i[p] = 1 /\ thrown[p] = NoError
          /\ HoldsNone(p)
          /\ pc[Right(p)] = "eating"
          /\ pc[Left(p)] = "delay"

\* ---- run-experiments.js --------------------------------------------------
\* The ring of the driver's experiments (N in run-experiments.js) and the
\* largest meal count (MEALS) of the driver's runs.
DriverSize == 2

DriverMeals == 1

\* The keys of 'experiments' whose strategy the model has.
Experiments == {"asymmetric", "conductor", "simultaneous"}

\* selectedAlgorithms: the three of 'all' or of no algorithm argument, or
\* the one valid algorithm argument.  Every one of them is a key of
\* 'experiments'; the argument 'naive-timeout', whose method Philosopher
\* does not have, is left out.
SelectedAlgorithms ==
    {<<"asymmetric", "conductor", "simultaneous">>}
        \cup {<<a>> : a \in Experiments}

\* runExperiment(name, ...) up to its await: startRun, fresh forks and
\* philosophers, the conductor of the 'conductor' experiment, and the
\* strategy started on every philosopher.
runExperiment(name, id) ==
    /\ startRun(name, id)
    /\ forks' = [f \in Ids |-> Fork(f)]
    /\ philosophers' = [p \in Ids |-> Philosopher(p, n)]
    /\ capacity' = (IF name = "conductor" THEN n - 1 ELSE capacity)
    /\ conductor' = (IF name = "conductor" THEN Conductor(n - 1) ELSE conductor)
    /\ strategy' = name
    /\ pc' = [p \in Ids |-> "start"]
    /\ i' = [p \in Ids |-> 0]
    /\ frame' = [p \in Ids |-> NoFrame]

\* What runExperiment returns once Promise.all has resolved.
Result ==
    [runId |-> currentRunId, name |-> strategy, n |-> n,
     mealsPerPhilosopher |-> count, log |-> eventLog]

\* The rest of main once the for loop has ended: the files are written.
save ==
    /\ strategy' = "saved"
    /\ UNCHANGED <<forks, philosophers, currentAlgorithm, currentRunId,
                   capacity, conductor, pc, i, frame>>

\* main up to its first await: clearEventLog, then the for loop's first
\* experiment.
main(id) ==
    /\ strategy = "none"
    /\ clearEventLog
    /\ runExperiment(Head(driver.selectedAlgorithms), id)
    /\ driver' = [driver EXCEPT !.selectedAlgorithms = Tail(@)]
    /\ UNCHANGED <<analysis, n, observed, count, thrown, calls, lastCall>>

\* main resumed when every task of the experiment has completed: the result
\* is pushed and the for loop goes on to the next experiment, or ends.
ExperimentDone(id) ==
    /\ strategy \in Experiments
    /\ \A p \in Ids : pc[p] = "done"
    /\ IF driver.selectedAlgorithms = <<>>
       THEN save /\ driver' = [driver EXCEPT !.results = Append(@, Result)]
       ELSE /\ runExperiment(Head(driver.selectedAlgorithms), id)
            /\ driver' = [selectedAlgorithms |-> Tail(driver.selectedAlgorithms),
                          results |-> Append(driver.results, Result)]
    /\ UNCHANGED <<analysis, n, eventLog, observed, count, thrown, calls,
                   lastCall>>

\* The process after the modules are loaded and before main is called.
InitDriver ==
    \E algorithms \in SelectedAlgorithms, meals \in 0 .. DriverMeals,
       view \in Views(DriverSize) :
        /\ n = DriverSize
        /\ forks = [f \in 0 .. (DriverSize - 1) |-> Fork(f)]
        /\ philosophers = [p \in 0 .. (DriverSize - 1) |-> Philosopher(p, DriverSize)]
        /\ eventLog = <<>>
        /\ currentAlgorithm = "unknown"
        /\ currentRunId = "null"
        /\ observed = view
        /\ capacity = 0
        /\ conductor = Conductor(0)
        /\ strategy = "none"
        /\ count = meals
        /\ pc = [p \in 0 .. (DriverSize - 1) |-> "idle"]
        /\ i = [p \in 0 .. (DriverSize - 1) |-> 0]
        /\ frame = [p \in 0 .. (DriverSize - 1) |-> NoFrame]
        /\ thrown = [p \in 0 .. (DriverSize - 1) |-> NoError]
        /\ calls = 0
        /\ lastCall = NoCall
        /\ analysis = NoAnalysis
        /\ driver = [selectedAlgorithms |-> algorithms, results |-> <<>>]

\* The tasks of an experiment take their steps in any order, their first
\* steps included.
NextDriver ==
    \/ \E id \in RunIds : main(id)
    \/ \E id \in RunIds : ExperimentDone(id)
    \/ \E p \in Ids : AcquireRetry(p)
    \/ \E p \in Ids : AsymStart(p)
    \/ \E p \in Ids : AsymSecond(p)
    \/ \E p \in Ids : AsymEatStart(p)
    \/ \E p \in Ids : AsymEatEnd(p)
    \/ \E p \in Ids : CondStart(p)
    \/ \E p \in Ids : CondSeated(p)
    \/ \E p \in Ids : CondSecond(p)
    \/ \E p \in Ids : CondEatStart(p)
    \/ \E p \in Ids : CondEatEnd(p)
    \/ \E p \in Ids : SimStart(p)
    \/ \E p \in Ids : SimRetry(p)
    \/ \E p \in Ids : SimEatStart(p)
    \/ \E p \in Ids : SimEatEnd(p)

SpecDriver == InitDriver /\ [][NextDriver]_vars

\* ---- C27 -----------------------------------------------------------------
\* C27: the log is cleared between the experiments of one process, so the
\* log of every result of runExperiment holds only entries tagged with that
\* result's runId.
CapturedLogsOwnRun ==
    \A r \in 1 .. Len(driver.results) :
        \A j \in 1 .. Len(driver.results[r].log) :
            driver.results[r].log[j].runId = driver.results[r].runId

====
